---- MODULE Spec2Model ----
(***************************************************************************)
(* modelpoison: the poisoning detector (pkg/detect) and the defender       *)
(* (pkg/defend), as a state machine of library calls on a caller-owned     *)
(* sample slice.                                                           *)
(*                                                                         *)
(* Numbers.  Features are integer-valued float64s (exact in float64).      *)
(* Every other float64 is held in fixed point, in units of 1/Scale,        *)
(* rounded up.  Rounding up keeps every strict comparison "x > t" against  *)
(* a literal t that is a multiple of 1/Scale exactly as on the real value  *)
(* (ceil(Scale*x) > Scale*t  <=>  x > t).  The mean is held as an exact    *)
(* fraction and the standard deviation as the exact radicand of its        *)
(* math.Sqrt, so the z-score comparisons are decided exactly.  NaN (0/0)   *)
(* is a value of its own, with float64's comparison and min/max rules.     *)
(***************************************************************************)
EXTENDS Integers, Sequences, FiniteSets, TLC

VARIABLES
    samples,     \* the caller's []Sample (shared backing array, maps by reference)
    thresholds,  \* Detector.thresholds
    strategies,  \* Defender.strategies
    call,        \* the last call made: its name and its arguments as passed
    ret,         \* what that call returned
    panicked     \* a run-time panic has unwound the program

vars == <<samples, thresholds, strategies, call, ret, panicked>>

---------------------------------------------------------------------------
(* Bounds of the model *)

\* longest run of the base value in a generated feature vector
MaxRun == 14
\* longest run of the second value appended to it
MaxTail == 2
\* longest sample slice handed to Detect / ApplyDefense
MaxSamples == 2
\* the risk arguments are the multiples of 1/MaxRiskSteps in [0,1]
MaxRiskSteps == 20
\* longest []*DefenseResult handed to CalculateDefenseScore
MaxResults == 2

---------------------------------------------------------------------------
(* float64 in fixed point *)

Scale == 10 * 10 * 10

NaN == 0 - 1

IsNaN(x) == x = NaN

\* float64(i) of an int
Fixed(i) == i * Scale

Abs(x) == IF x < 0 THEN 0 - x ELSE x

CeilDiv(a, b) == (a + b - 1) \div b

\* a > b on float64: false when either side is NaN
FGt(a, b) == ~IsNaN(a) /\ ~IsNaN(b) /\ a > b

\* a < b on float64
FLt(a, b) == ~IsNaN(a) /\ ~IsNaN(b) /\ a < b

\* math.Min: NaN if either argument is NaN
FMin(a, b) == IF IsNaN(a) \/ IsNaN(b) THEN NaN ELSE IF a < b THEN a ELSE b

\* math.Max: NaN if either argument is NaN
FMax(a, b) == IF IsNaN(a) \/ IsNaN(b) THEN NaN ELSE IF a > b THEN a ELSE b

\* a + b on float64
FAdd(a, b) == IF IsNaN(a) \/ IsNaN(b) THEN NaN ELSE a + b

\* a * b on non-negative float64s
FMul(a, b) == IF IsNaN(a) \/ IsNaN(b) THEN NaN ELSE CeilDiv(a * b, Scale)

\* a / b on non-negative float64s; 0/0 is NaN (the only division by zero the
\* program can make: every other divisor is guarded or a non-zero literal)
FDiv(a, b) ==
    IF IsNaN(a) \/ IsNaN(b) \/ b = 0 THEN NaN ELSE CeilDiv(a * Scale, b)

RECURSIVE GCD(_, _)
GCD(a, b) == IF b = 0 THEN a ELSE GCD(b, a % b)

RECURSIVE SqrtSearch(_, _, _, _)
SqrtSearch(num, den, lo, hi) ==
    IF lo >= hi THEN hi
    ELSE LET mid == (lo + hi) \div 2
         IN  IF mid * mid * den >= num * Scale * Scale
             THEN SqrtSearch(num, den, lo, mid)
             ELSE SqrtSearch(num, den, mid + 1, hi)

\* math.Sqrt(num/den), for num >= 0 and den > 0
FSqrt(num, den) ==
    LET g == GCD(num, den)
        n == num \div g
        d == den \div g
    IN  SqrtSearch(n, d, 0, Scale * ((n \div d) + 1))

RECURSIVE Sum(_)
Sum(s) == IF Len(s) = 0 THEN 0 ELSE Head(s) + Sum(Tail(s))

MaxOf(S) == CHOOSE x \in S : \A y \in S : y <= x

Rep(v, k) == [i \in 1..k |-> v]

---------------------------------------------------------------------------
(* pkg/detect *)

TypeBackdoor == "backdoor"
TypeLabelFlip == "label_flip"
TypeGradientPoison == "gradient_poison"
TypeFeaturePoison == "feature_poison"
TypeDataPoison == "data_poison"

\* NewDetector: the thresholds map
NewDetector ==
    [t \in {TypeBackdoor, TypeLabelFlip, TypeGradientPoison, TypeFeaturePoison,
            TypeDataPoison} |->
        CASE t = TypeBackdoor -> 700
          [] t = TypeLabelFlip -> 600
          [] t = TypeGradientPoison -> 650
          [] t = TypeFeaturePoison -> 700
          [] t = TypeDataPoison -> 650]

\* avg[i] = features[i] / 2.0; the empty slice is returned as it is
calculateAverage(features) ==
    IF Len(features) = 0 THEN features
    ELSE [i \in 1..Len(features) |-> (features[i] * Scale) \div 2]

calculateLabelLikelihood(sample) == 500

\* sum / float64(len), as the exact fraction num/den; 0 for the empty slice
calculateMean(features) ==
    IF Len(features) = 0 THEN [num |-> 0, den |-> 1]
    ELSE [num |-> Sum(features), den |-> Len(features)]

\* f - mean, in units of 1/mean.den
Dev(f, mean) == f * mean.den - mean.num

\* math.Sqrt(sum / float64(len)) with sum the sum of (f-mean)^2, held as the
\* radicand: ss is that sum in units of 1/mean.den^2, n the length.
\* The result is 0 exactly when ss = 0.
calculateStdDev(features, mean) ==
    IF Len(features) = 0 THEN [ss |-> 0, n |-> 1]
    ELSE [ss |-> Sum([i \in 1..Len(features) |->
                        Dev(features[i], mean) * Dev(features[i], mean)]),
          n |-> Len(features)]

\* math.Abs(f-mean)/stdDev > c/d, for stdDev > 0
ZExceeds(f, mean, stdDev, c, d) ==
    Dev(f, mean) * Dev(f, mean) * stdDev.n * d * d > c * c * stdDev.ss

\* math.Abs(f-mean) / stdDev, for stdDev > 0
ZScore(f, mean, stdDev) ==
    FSqrt(Dev(f, mean) * Dev(f, mean) * stdDev.n, stdDev.ss)

\* checkBackdoor counting a deviation of exactly 3.0 as well (>= for >)
checkBackdoor_AtDeviation(sample) ==
    LET avgFeatures == calculateAverage(sample.Features)
        hits == {i \in 1..Len(sample.Features) :
                    Abs(Fixed(sample.Features[i]) - avgFeatures[i]) >= Fixed(3)}
    IN  FMin(100 * Cardinality(hits), Scale)

checkBackdoor(sample) ==
    LET avgFeatures == calculateAverage(sample.Features)
        hits == {i \in 1..Len(sample.Features) :
                    Abs(Fixed(sample.Features[i]) - avgFeatures[i]) > Fixed(3)}
        score == 100 * Cardinality(hits)
    IN  FMin(score, Scale)

checkLabelFlip(sample) ==
    LET likelihood == calculateLabelLikelihood(sample)
    IN  IF FLt(likelihood, 300) THEN Scale - likelihood ELSE 0

\* checkGradientPoison counting the features beyond one standard deviation
checkGradientPoison_OneSigma(sample) ==
    LET mean == calculateMean(sample.Features)
        stdDev == calculateStdDev(sample.Features, mean)
        outliers == Cardinality({i \in 1..Len(sample.Features) :
                        stdDev.ss > 0
                        /\ ZExceeds(sample.Features[i], mean, stdDev, 1, 1)})
        outlierRatio == FDiv(Fixed(outliers), Fixed(Len(sample.Features)))
    IN  FMin(FMul(outlierRatio, Fixed(2)), Scale)

checkGradientPoison(sample) ==
    LET mean == calculateMean(sample.Features)
        stdDev == calculateStdDev(sample.Features, mean)
        outliers == Cardinality({i \in 1..Len(sample.Features) :
                        stdDev.ss > 0
                        /\ ZExceeds(sample.Features[i], mean, stdDev, 2, 1)})
        outlierRatio == FDiv(Fixed(outliers), Fixed(Len(sample.Features)))
        score == FMul(outlierRatio, Fixed(2))
    IN  FMin(score, Scale)

checkFeaturePoison(sample) ==
    LET mean == calculateMean(sample.Features)
        stdDev == calculateStdDev(sample.Features, mean)
        maxZScore == MaxOf({0} \cup
                        {ZScore(sample.Features[i], mean, stdDev) :
                            i \in {j \in 1..Len(sample.Features) : stdDev.ss > 0}})
    IN  FMin(FDiv(maxZScore, Fixed(5)), Scale)

\* a threshold check that records its type, description and evidence only
\* when its score is the highest so far (highest-wins for last-write-wins)
CheckFired_HighestWins(d, result, type, score, first, description, evidence) ==
    IF FGt(score, d[type])
    THEN IF first \/ score > result.Score
         THEN [result EXCEPT
                !.IsPoisoned = TRUE, !.Type = type, !.Score = score,
                !.Confidence = score, !.Description = description,
                !.Evidence = evidence]
         ELSE [result EXCEPT !.IsPoisoned = TRUE]
    ELSE result

\* a threshold check that also fires at the threshold (>= for >)
CheckFired_AtThreshold(d, result, type, score, first, description, evidence) ==
    IF ~IsNaN(score) /\ score >= d[type]
    THEN [result EXCEPT
            !.IsPoisoned = TRUE,
            !.Type = type,
            !.Score = IF first THEN score ELSE FMax(result.Score, score),
            !.Confidence = score,
            !.Description = description,
            !.Evidence = evidence]
    ELSE result

\* one threshold check of analyzeSample: the verdict after the check
CheckFired(d, result, type, score, first, description, evidence) ==
    IF FGt(score, d[type])
    THEN [result EXCEPT
            !.IsPoisoned = TRUE,
            !.Type = type,
            !.Score = IF first THEN score ELSE FMax(result.Score, score),
            !.Confidence = score,
            !.Description = description,
            !.Evidence = evidence]
    ELSE result

analyzeSample(d, sample) ==
    LET r0 == [ID |-> sample.ID, IsPoisoned |-> FALSE, Score |-> 0, Type |-> "",
               Description |-> "", Evidence |-> "", Confidence |-> 0]
        r1 == CheckFired(d, r0, TypeBackdoor, checkBackdoor(sample), TRUE,
                         "Potential backdoor trigger detected",
                         "Unusual feature pattern")
        r2 == CheckFired(d, r1, TypeLabelFlip, checkLabelFlip(sample), FALSE,
                         "Suspicious label assignment detected",
                         "Label-feature inconsistency")
        r3 == CheckFired(d, r2, TypeGradientPoison, checkGradientPoison(sample),
                         FALSE, "Gradient manipulation detected",
                         "Abnormal gradient pattern")
        r4 == CheckFired(d, r3, TypeFeaturePoison, checkFeaturePoison(sample),
                         FALSE, "Feature manipulation detected",
                         "Anomalous feature values")
    IN  r4

\* calculateRiskScore weighting the summed confidence, not its mean
calculateRiskScore_TotalConfidence(result) ==
    IF result.SampleCount = 0 THEN 0
    ELSE LET ratio == FDiv(Fixed(result.PoisonedCount), Fixed(result.SampleCount))
             totalConfidence ==
                 Sum([i \in 1..Len(result.Samples) |-> result.Samples[i].Confidence])
         IN  FAdd(FMul(ratio, 700), FMul(totalConfidence, 300))

\* calculateRiskScore averaging the confidence over the poisoned verdicts only
calculateRiskScore_PoisonedMean(result) ==
    IF result.SampleCount = 0 THEN 0
    ELSE LET ratio == FDiv(Fixed(result.PoisonedCount), Fixed(result.SampleCount))
             totalConfidence ==
                 Sum([i \in 1..Len(result.Samples) |-> result.Samples[i].Confidence])
             avgConfidence ==
                 IF result.PoisonedCount = 0 THEN 0
                 ELSE FDiv(totalConfidence, Fixed(result.PoisonedCount))
         IN  FAdd(FMul(ratio, 700), FMul(avgConfidence, 300))

calculateRiskScore(result) ==
    IF result.SampleCount = 0 THEN 0
    ELSE LET ratio == FDiv(Fixed(result.PoisonedCount), Fixed(result.SampleCount))
             totalConfidence ==
                 Sum([i \in 1..Len(result.Samples) |-> result.Samples[i].Confidence])
             avgConfidence == FDiv(totalConfidence, Fixed(result.SampleCount))
         IN  FAdd(FMul(ratio, 700), FMul(avgConfidence, 300))

\* the loop of Detect over samples[i..]: verdicts appended, poisoned counted
RECURSIVE DetectLoop(_, _, _, _)
DetectLoop(d, ss, i, result) ==
    IF i > Len(ss) THEN result
    ELSE LET poisoned == analyzeSample(d, ss[i])
         IN  DetectLoop(d, ss, i + 1,
                [result EXCEPT
                    !.Samples = Append(@, poisoned),
                    !.PoisonedCount = IF poisoned.IsPoisoned THEN @ + 1 ELSE @])

DetectResult(d, ss) ==
    LET r0 == [IsPoisoned |-> FALSE, SampleCount |-> 0, PoisonedCount |-> 0,
               Samples |-> <<>>, RiskScore |-> 0, Method |-> "ensemble_detection"]
        r1 == DetectLoop(d, ss, 1, r0)
        r2 == [r1 EXCEPT !.SampleCount = Len(ss),
                         !.IsPoisoned = r1.PoisonedCount > 0]
    IN  [r2 EXCEPT !.RiskScore = calculateRiskScore(r2)]

---------------------------------------------------------------------------
(* pkg/defend *)

\* NewDefender: the strategy catalog, in its order
NewDefender ==
    << [Name |-> "Data Cleaning", Description |-> "Remove suspicious samples",
        Effectiveness |-> 750, Overhead |-> 200, Type |-> "preprocessing"],
       [Name |-> "Robust Aggregation", Description |-> "Use robust aggregation methods",
        Effectiveness |-> 800, Overhead |-> 150, Type |-> "aggregation"],
       [Name |-> "Input Filtering", Description |-> "Filter malicious inputs",
        Effectiveness |-> 700, Overhead |-> 100, Type |-> "filtering"],
       [Name |-> "Adversarial Training", Description |-> "Train on poisoned examples",
        Effectiveness |-> 850, Overhead |-> 400, Type |-> "training"],
       [Name |-> "Outlier Detection", Description |-> "Detect and remove outliers",
        Effectiveness |-> 650, Overhead |-> 120, Type |-> "detection"],
       [Name |-> "Ensemble Defense", Description |-> "Use multiple models",
        Effectiveness |-> 900, Overhead |-> 500, Type |-> "ensemble"] >>

\* the range loop over d.strategies with its early return: the first strategy
\* named `strategy`, or 0 when the loop runs out
FirstNamed(d, strategy) ==
    LET hits == {i \in 1..Len(d) : d[i].Name = strategy}
    IN  IF hits = {} THEN 0 ELSE CHOOSE i \in hits : \A j \in hits : i <= j

\* Defend reporting the improvement as the risk reduction
DefendResult_ReductionIsImprovement(d, poisoningRisk, strategy) ==
    LET k == FirstNamed(d, strategy)
    IN  IF k = 0
        THEN [Success |-> FALSE, StrategyUsed |-> "", Improvement |-> 0,
              RiskReduction |-> 0, Cost |-> 0]
        ELSE LET improvement == FMul(d[k].Effectiveness, poisoningRisk)
             IN  [Success |-> TRUE, StrategyUsed |-> d[k].Name,
                  Improvement |-> improvement, RiskReduction |-> improvement,
                  Cost |-> d[k].Overhead]

DefendResult(d, poisoningRisk, strategy) ==
    LET k == FirstNamed(d, strategy)
    IN  IF k = 0
        THEN [Success |-> FALSE, StrategyUsed |-> "", Improvement |-> 0,
              RiskReduction |-> 0, Cost |-> 0]
        ELSE LET strat == d[k]
                 improvement == FMul(strat.Effectiveness, poisoningRisk)
                 riskReduction == poisoningRisk - improvement
             IN  [Success |-> TRUE, StrategyUsed |-> strat.Name,
                  Improvement |-> improvement, RiskReduction |-> riskReduction,
                  Cost |-> strat.Overhead]

isSuspicious(sample) ==
    LET mean == calculateMean(sample.Features)
        stdDev == calculateStdDev(sample.Features, mean)
    IN  \E i \in 1..Len(sample.Features) :
            stdDev.ss > 0 /\ ZExceeds(sample.Features[i], mean, stdDev, 3, 1)

\* isValidInput with the range bounds excluded (<= and >= for < and >)
isValidInput_Exclusive(sample) ==
    IF Len(sample.Features) = 0 THEN FALSE
    ELSE ~ \E i \in 1..Len(sample.Features) :
                sample.Features[i] <= -100 \/ sample.Features[i] >= 100

isValidInput(sample) ==
    IF Len(sample.Features) = 0 THEN FALSE
    ELSE ~ \E i \in 1..Len(sample.Features) :
                sample.Features[i] < -100 \/ sample.Features[i] > 100

isOutlier(sample) ==
    LET mean == calculateMean(sample.Features)
        stdDev == calculateStdDev(sample.Features, mean)
    IN  IF stdDev.ss = 0 THEN FALSE
        ELSE \E i \in 1..Len(sample.Features) :
                ZExceeds(sample.Features[i], mean, stdDev, 5, 2)

cleanData(ss) == SelectSeq(ss, LAMBDA s : ~isSuspicious(s))

filterInputs(ss) == SelectSeq(ss, LAMBDA s : isValidInput(s))

\* Metadata[key] = TRUE on a non-nil map
MapSet(metadata, key) ==
    [metadata EXCEPT !.m = [k \in DOMAIN metadata.m \cup {key} |->
                                IF k = key THEN TRUE ELSE metadata.m[k]]]

\* the loop of detectOutliers over samples[i..], writing through the caller's
\* slice; an assignment to an entry of a nil map panics and the loop is left
\* with the earlier writes done
RECURSIVE detectOutliers(_, _)
detectOutliers(ss, i) ==
    IF i > Len(ss) THEN [samples |-> ss, panicked |-> FALSE]
    ELSE IF isOutlier(ss[i])
         THEN IF ss[i].Metadata.nil
              THEN [samples |-> ss, panicked |-> TRUE]
              ELSE detectOutliers(
                      [ss EXCEPT ![i].Metadata = MapSet(@, "suspicious")], i + 1)
         ELSE detectOutliers(ss, i + 1)

\* applyStrategy with cleanData filtering in place (cleaned := samples[:0]):
\* the kept samples are written over the front of the caller's slice
applyStrategy_InPlaceClean(ss, strategy) ==
    CASE strategy.Type = "preprocessing" ->
            LET cleaned == cleanData(ss)
            IN  [ret |-> cleaned,
                 samples |-> [i \in 1..Len(ss) |->
                                IF i <= Len(cleaned) THEN cleaned[i] ELSE ss[i]],
                 panicked |-> FALSE]
      [] strategy.Type = "filtering" ->
            [ret |-> filterInputs(ss), samples |-> ss, panicked |-> FALSE]
      [] strategy.Type = "detection" ->
            LET r == detectOutliers(ss, 1)
            IN  [ret |-> r.samples, samples |-> r.samples, panicked |-> r.panicked]
      [] OTHER -> [ret |-> ss, samples |-> ss, panicked |-> FALSE]

\* applyStrategy: [ret: the slice returned, samples: the caller's slice after
\* the call, panicked]
applyStrategy(ss, strategy) ==
    CASE strategy.Type = "preprocessing" ->
            [ret |-> cleanData(ss), samples |-> ss, panicked |-> FALSE]
      [] strategy.Type = "filtering" ->
            [ret |-> filterInputs(ss), samples |-> ss, panicked |-> FALSE]
      [] strategy.Type = "detection" ->
            LET r == detectOutliers(ss, 1)
            IN  [ret |-> r.samples, samples |-> r.samples, panicked |-> r.panicked]
      [] OTHER -> [ret |-> ss, samples |-> ss, panicked |-> FALSE]

ApplyDefenseResult(d, ss, strategy) ==
    LET k == FirstNamed(d, strategy)
    IN  IF k = 0 THEN [ret |-> ss, samples |-> ss, panicked |-> FALSE]
        ELSE applyStrategy(ss, d[k])

\* RecommendDefense with the boundaries in the upper bracket (>= for >)
RecommendDefenseResult_Inclusive(poisoningRisk) ==
    IF poisoningRisk >= 700 THEN "Adversarial Training"
    ELSE IF poisoningRisk >= 500 THEN "Ensemble Defense"
    ELSE IF poisoningRisk >= 300 THEN "Robust Aggregation"
    ELSE IF poisoningRisk >= 100 THEN "Data Cleaning"
    ELSE "Outlier Detection"

RecommendDefenseResult(poisoningRisk) ==
    IF FGt(poisoningRisk, 700) THEN "Adversarial Training"
    ELSE IF FGt(poisoningRisk, 500) THEN "Ensemble Defense"
    ELSE IF FGt(poisoningRisk, 300) THEN "Robust Aggregation"
    ELSE IF FGt(poisoningRisk, 100) THEN "Data Cleaning"
    ELSE "Outlier Detection"

\* CalculateDefenseScore dividing by the number of successful results
CalculateDefenseScoreResult_MeanOfSuccesses(results) ==
    IF Len(results) = 0 THEN 0
    ELSE LET score == Sum([i \in 1..Len(results) |->
                            IF results[i].Success THEN results[i].Improvement ELSE 0])
             successes == Cardinality({i \in 1..Len(results) : results[i].Success})
         IN  IF successes = 0 THEN 0 ELSE FDiv(score, Fixed(successes))

CalculateDefenseScoreResult(results) ==
    IF Len(results) = 0 THEN 0
    ELSE LET score == Sum([i \in 1..Len(results) |->
                            IF results[i].Success THEN results[i].Improvement ELSE 0])
         IN  FDiv(score, Fixed(Len(results)))

---------------------------------------------------------------------------
(* The inputs a caller hands over *)

NilMap == [nil |-> TRUE, m |-> <<>>]

EmptyMap == [nil |-> FALSE, m |-> <<>>]

\* a map that already holds a key of the caller's
TaggedMap == [nil |-> FALSE, m |-> [k \in {"source"} |-> "csv"]]

IdOf(i) == CASE i = 1 -> "s1" [] i = 2 -> "s2" [] i = 3 -> "s3" [] OTHER -> "s4"

\* feature vectors for the sample slices: empty; eleven equal features over
\* the backdoor deviation; one far feature among 8 (z^2 = 7) and among 14
\* (z^2 = 13), at the ends of the valid range; the same with every feature
\* over the backdoor deviation and the far one out of the valid range; a
\* short vector below the valid range
SliceFeatures ==
    { <<>>, Rep(7, 11), Rep(0, 7) \o <<-100>>, Rep(0, 13) \o <<100>>,
      Rep(7, 13) \o <<101>>, <<-101, 0>> }

SliceSamples ==
    [ID : {""}, Features : SliceFeatures, Label : {0}, Metadata : {NilMap, EmptyMap}]

\* the slices of at most MaxSamples samples, identified by position
SampleSlices ==
    UNION { { [i \in 1..n |-> [s[i] EXCEPT !.ID = IdOf(i), !.Label = i % 2]] :
                s \in [1..n -> SliceSamples] } : n \in 0..MaxSamples }

\* feature vectors for the scorers: a run of one value, then a run of another
BaseValues == {-7, -6, 0, 6, 7}

TailValues == {-101, -100, 1, 100, 101}

\* ... and the same with the second run mirrored about the base value, which
\* puts far features on both sides of the mean
ScorerFeatures ==
    { Rep(a, k) \o Rep(b, m) :
        a \in BaseValues, b \in TailValues, k \in 0..MaxRun, m \in 0..MaxTail }
    \cup
    { Rep(a, k) \o Rep(b, m) \o Rep(2 * a - b, m) :
        a \in BaseValues, b \in TailValues, k \in 0..MaxRun, m \in 1..MaxTail }

ScorerSamples ==
    [ID : {"s1"}, Features : ScorerFeatures, Label : {0, 1},
     Metadata : {NilMap, TaggedMap}]

Risks == { CeilDiv(i * Scale, MaxRiskSteps) : i \in 0..MaxRiskSteps }

StrategyNames ==
    { NewDefender[i].Name : i \in 1..Len(NewDefender) } \cup {"Nonexistent Strategy"}

\* results a caller may have collected from Defend
ResultPool ==
    { DefendResult(NewDefender, r, n) :
        r \in {Scale \div 2, Scale},
        n \in {"Robust Aggregation", "Data Cleaning", "Nonexistent Strategy"} }

ResultSeqs == UNION { [1..n -> ResultPool] : n \in 0..MaxResults }

---------------------------------------------------------------------------
(* The calls *)

NoCall == [op |-> "none"]

Init ==
    /\ samples \in SampleSlices
    /\ thresholds = NewDetector
    /\ strategies = NewDefender
    /\ call = NoCall
    /\ ret = 0
    /\ panicked = FALSE

Detect ==
    /\ ~panicked
    /\ call' = [op |-> "Detect", samples |-> samples]
    /\ ret' = DetectResult(thresholds, samples)
    /\ UNCHANGED <<samples, thresholds, strategies, panicked>>

\* Defend called with a risk among `risks` and any strategy name
DefendWith(risks) ==
    /\ ~panicked
    /\ \E poisoningRisk \in risks, strategy \in StrategyNames :
        /\ call' = [op |-> "Defend", poisoningRisk |-> poisoningRisk,
                    strategy |-> strategy]
        /\ ret' = DefendResult(strategies, poisoningRisk, strategy)
    /\ UNCHANGED <<samples, thresholds, strategies, panicked>>

\* Defend on the risk score Detect has just returned
DefendDetected ==
    /\ call.op = "Detect"
    /\ DefendWith({ret.RiskScore})

ApplyDefense ==
    /\ ~panicked
    /\ \E strategy \in StrategyNames :
        LET r == ApplyDefenseResult(strategies, samples, strategy)
        IN  /\ call' = [op |-> "ApplyDefense", samples |-> samples,
                        strategy |-> strategy]
            /\ samples' = r.samples
            /\ panicked' = r.panicked
            /\ ret' = IF r.panicked THEN 0 ELSE r.ret
    /\ UNCHANGED <<thresholds, strategies>>

RecommendDefense ==
    /\ ~panicked
    /\ \E poisoningRisk \in Risks :
        /\ call' = [op |-> "RecommendDefense", poisoningRisk |-> poisoningRisk]
        /\ ret' = RecommendDefenseResult(poisoningRisk)
    /\ UNCHANGED <<samples, thresholds, strategies, panicked>>

CalculateDefenseScore ==
    /\ ~panicked
    /\ \E results \in ResultSeqs :
        /\ call' = [op |-> "CalculateDefenseScore", results |-> results]
        /\ ret' = CalculateDefenseScoreResult(results)
    /\ UNCHANGED <<samples, thresholds, strategies, panicked>>

Next ==
    \/ Detect
    \/ DefendDetected
    \/ ApplyDefense

Spec == Init /\ [][Next]_vars

(* The defender's functions of a risk, on their own *)

InitDefender ==
    /\ samples = <<>>
    /\ thresholds = NewDetector
    /\ strategies = NewDefender
    /\ call = NoCall
    /\ ret = 0
    /\ panicked = FALSE

Defend == DefendWith(Risks)

NextDefender ==
    \/ Defend
    \/ RecommendDefense
    \/ CalculateDefenseScore

SpecDefender == InitDefender /\ [][NextDefender]_vars

(* The scorers on one sample *)

InitScorers ==
    /\ samples \in { <<s>> : s \in ScorerSamples }
    /\ thresholds = NewDetector
    /\ strategies = NewDefender
    /\ call = NoCall
    /\ ret = 0
    /\ panicked = FALSE

\* all four scorers applied to the sample, side by side
Scorers ==
    /\ call' = [op |-> "scorers", sample |-> samples[1]]
    /\ ret' = [backdoor |-> checkBackdoor(samples[1]),
               label |-> checkLabelFlip(samples[1]),
               gradient |-> checkGradientPoison(samples[1]),
               feature |-> checkFeaturePoison(samples[1])]
    /\ UNCHANGED <<samples, thresholds, strategies, panicked>>

NextScorers ==
    \/ Scorers
    \/ Detect

SpecScorers == InitScorers /\ [][NextScorers]_vars

---------------------------------------------------------------------------
(* Properties *)

\* the sum of f over the finite set S
RECURSIVE SumOver(_, _)
SumOver(S, f) ==
    IF S = {} THEN 0
    ELSE LET x == CHOOSE y \in S : TRUE IN f[x] + SumOver(S \ {x}, f)

\* the j-th smallest element of a set of integers
Nth(S, j) == CHOOSE i \in S : Cardinality({x \in S : x <= i}) = j

AllEqual(features) ==
    Len(features) > 0 /\ \A i \in 1..Len(features) : features[i] = features[1]

\* the catalog entry named n
Named(n) == CHOOSE s \in {strategies[i] : i \in 1..Len(strategies)} : s.Name = n

CatalogNames == {strategies[i].Name : i \in 1..Len(strategies)}

\* C1: whatever the sample slice (samples with no features included), the
\* result of Detect has PoisonedCount <= SampleCount and a risk score that is
\* a number in [0, 1].
C1_CountAndRiskInRange ==
    call.op = "Detect" =>
        /\ ret.PoisonedCount <= ret.SampleCount
        /\ ~IsNaN(ret.RiskScore)
        /\ 0 <= ret.RiskScore
        /\ ret.RiskScore <= Scale

\* C1 witness: Detect on a slice holding a sample without features beside a
\* sample it flags.
C1_Witness ==
    /\ call.op = "Detect"
    /\ \E i \in 1..Len(call.samples) : Len(call.samples[i].Features) = 0
    /\ ret.PoisonedCount >= 1
    /\ ret.RiskScore > 0

\* C2: Detect's risk score is 0.7 * PoisonedCount/SampleCount + 0.3 * the mean
\* of Confidence over all verdicts (an unpoisoned verdict has confidence 0),
\* to within the three roundings of the fixed-point evaluation; PoisonedCount
\* counts the poisoned verdicts; for the empty slice the result is
\* SampleCount = 0, PoisonedCount = 0, RiskScore = 0, IsPoisoned = FALSE.
C2_RiskScoreFormula ==
    call.op = "Detect" =>
        LET n == Len(call.samples)
            verdicts == ret.Samples
            poisoned == {i \in 1..Len(verdicts) : verdicts[i].IsPoisoned}
            confidence == SumOver(1..Len(verdicts),
                                  [i \in 1..Len(verdicts) |-> verdicts[i].Confidence])
            exact10n == 7 * ret.PoisonedCount * Scale + 3 * confidence
        IN  /\ ret.SampleCount = n
            /\ Len(verdicts) = n
            /\ ret.PoisonedCount = Cardinality(poisoned)
            /\ ret.IsPoisoned = (ret.PoisonedCount > 0)
            /\ \A i \in 1..n : ~verdicts[i].IsPoisoned => verdicts[i].Confidence = 0
            /\ IF n = 0
               THEN ret.RiskScore = 0 /\ ret.PoisonedCount = 0 /\ ~ret.IsPoisoned
               ELSE /\ 10 * n * ret.RiskScore >= exact10n
                    /\ 10 * n * (ret.RiskScore - 3) < exact10n

\* C2 witness: Detect on a slice of which some but not all samples are flagged.
C2_Witness ==
    /\ call.op = "Detect"
    /\ ret.PoisonedCount >= 1
    /\ ret.PoisonedCount < ret.SampleCount

\* C3: in every verdict of Detect, IsPoisoned implies that Score is strictly
\* greater than the threshold of the type recorded in Type, which is one of
\* backdoor, label_flip, gradient_poison, feature_poison.
C3_PoisonedAboveThreshold ==
    call.op = "Detect" =>
        \A i \in 1..Len(ret.Samples) :
            ret.Samples[i].IsPoisoned =>
                /\ ret.Samples[i].Type \in {TypeBackdoor, TypeLabelFlip,
                                            TypeGradientPoison, TypeFeaturePoison}
                /\ FGt(ret.Samples[i].Score, thresholds[ret.Samples[i].Type])

\* C3 witness: a verdict on which the backdoor check and the feature check
\* both fired: the type is that of the later check, the score the earlier one's.
C3_Witness ==
    /\ call.op = "Detect"
    /\ \E i \in 1..Len(ret.Samples) :
        /\ ret.Samples[i].IsPoisoned
        /\ ret.Samples[i].Type = TypeFeaturePoison
        /\ FGt(checkBackdoor(call.samples[i]), thresholds[TypeBackdoor])
        /\ ret.Samples[i].Score > ret.Samples[i].Confidence

\* C4: each of the four scorers returns a number in [0, 1] for every sample,
\* a sample without features included.
C4_ScorersInUnitInterval ==
    call.op = "scorers" =>
        \A k \in DOMAIN ret : ~IsNaN(ret[k]) /\ 0 <= ret[k] /\ ret[k] <= Scale

\* C5 as stated: on a sample whose features are all equal (and there is at
\* least one), all four scorers return 0.
C5_AllEqualScoresZero ==
    (call.op = "scorers" /\ AllEqual(call.sample.Features)) =>
        \A k \in DOMAIN ret : ret[k] = 0

\* C5 as amended: on a sample whose features are all equal to one integer v
\* (and there is at least one), the label, gradient and feature scorers
\* return 0; the backdoor scorer returns 0 when |v| <= 6 and otherwise 0.1
\* for each feature, at most 1.
C5_AllEqualScores ==
    (call.op = "scorers" /\ AllEqual(call.sample.Features)) =>
        LET v == call.sample.Features[1]
            n == Len(call.sample.Features)
        IN  /\ ret.label = 0
            /\ ret.gradient = 0
            /\ ret.feature = 0
            /\ ret.backdoor = IF Abs(v) <= 6 THEN 0
                              ELSE IF n >= 10 THEN Scale ELSE n * (Scale \div 10)

\* C5 witness: all features equal to a value over 6 in magnitude, and the
\* backdoor scorer above 0.
C5_Witness ==
    /\ call.op = "scorers"
    /\ AllEqual(call.sample.Features)
    /\ Len(call.sample.Features) >= 2
    /\ Abs(call.sample.Features[1]) > 6
    /\ ret.backdoor > 0
    /\ ret.feature = 0

\* C6: Defend looks the name up in the six-entry catalog; found, it returns
\* Success, the name, Improvement = effectiveness * risk, RiskReduction =
\* risk - Improvement and Cost = overhead (0.225, 0.075, 0.2 for risk 0.3 and
\* "Data Cleaning"); not found, Success = FALSE and every other field zero.
C6_DefendLookup ==
    call.op = "Defend" =>
        /\ Len(strategies) = 6
        /\ IF call.strategy \in CatalogNames
           THEN LET s == Named(call.strategy)
                IN  /\ ret.Success
                    /\ ret.StrategyUsed = call.strategy
                    /\ Scale * ret.Improvement >= s.Effectiveness * call.poisoningRisk
                    /\ Scale * (ret.Improvement - 1) < s.Effectiveness * call.poisoningRisk
                    /\ ret.RiskReduction = call.poisoningRisk - ret.Improvement
                    /\ ret.Cost = s.Overhead
           ELSE ret = [Success |-> FALSE, StrategyUsed |-> "", Improvement |-> 0,
                       RiskReduction |-> 0, Cost |-> 0]
        /\ (call.strategy = "Data Cleaning" /\ call.poisoningRisk = 300) =>
                (ret.Improvement = 225 /\ ret.RiskReduction = 75 /\ ret.Cost = 200)

\* C6 witness: Defend(0.3, "Data Cleaning") has returned.
C6_Witness ==
    /\ call.op = "Defend"
    /\ call.strategy = "Data Cleaning"
    /\ call.poisoningRisk = 300
    /\ ret.Success
    /\ ret.Improvement = 225

\* C7: RecommendDefense is the ladder of strict comparisons (a risk equal to
\* 0.7, 0.5, 0.3 or 0.1 falls in the lower bracket), and what it recommends
\* is a name of the catalog.
C7_RecommendLadder ==
    call.op = "RecommendDefense" =>
        LET r == call.poisoningRisk
        IN  /\ (r <= 100) => ret = "Outlier Detection"
            /\ (100 < r /\ r <= 300) => ret = "Data Cleaning"
            /\ (300 < r /\ r <= 500) => ret = "Robust Aggregation"
            /\ (500 < r /\ r <= 700) => ret = "Ensemble Defense"
            /\ (700 < r) => ret = "Adversarial Training"
            /\ ret \in CatalogNames

\* C7 witness: a risk of exactly 0.7 has been answered with the lower bracket.
C7_Witness ==
    /\ call.op = "RecommendDefense"
    /\ call.poisoningRisk = 700
    /\ ret = "Ensemble Defense"

\* C8: ApplyDefense with "Input Filtering" returns exactly the samples that
\* have at least one feature and every feature in [-100, 100], in their
\* order and unchanged, and leaves the caller's slice as it was.
C8_FilteringKeepsValid ==
    (call.op = "ApplyDefense" /\ call.strategy = "Input Filtering") =>
        LET in == call.samples
            keep == {i \in 1..Len(in) :
                        /\ Len(in[i].Features) > 0
                        /\ \A j \in 1..Len(in[i].Features) :
                                -100 <= in[i].Features[j] /\ in[i].Features[j] <= 100}
        IN  /\ ~panicked
            /\ Len(ret) = Cardinality(keep)
            /\ \A j \in 1..Len(ret) : ret[j] = in[Nth(keep, j)]
            /\ samples = in

\* C8 witness: filtering has kept a sample with a feature at a bound of the
\* range and removed another sample.
C8_Witness ==
    /\ call.op = "ApplyDefense"
    /\ call.strategy = "Input Filtering"
    /\ Len(ret) >= 1
    /\ Len(ret) < Len(call.samples)
    /\ \E j \in 1..Len(ret) : \E f \in 1..Len(ret[j].Features) :
            Abs(ret[j].Features[f]) = 100

\* C9: ApplyDefense with "Outlier Detection" completes whatever the samples'
\* metadata (an absent map included) and returns every sample, in order, with
\* "suspicious" = true set on exactly the samples that have a feature with
\* an absolute z-score over 2.5.
C9_DetectionMarksOutliers ==
    (call.op = "ApplyDefense" /\ call.strategy = "Outlier Detection") =>
        /\ ~panicked
        /\ Len(ret) = Len(call.samples)
        /\ \A i \in 1..Len(call.samples) :
            LET in == call.samples[i]
            IN  IF isOutlier(in)
                THEN /\ ~ret[i].Metadata.nil
                     /\ "suspicious" \in DOMAIN ret[i].Metadata.m
                     /\ ret[i].Metadata.m["suspicious"] = TRUE
                     /\ [ret[i] EXCEPT !.Metadata = in.Metadata] = in
                ELSE ret[i] = in

\* C10: CalculateDefenseScore returns the sum of Improvement over the
\* successful results divided by the number of all results, and 0 for no
\* results (0.4 for one success of 0.4; 0.2 with a failure beside it).
C10_DefenseScore ==
    call.op = "CalculateDefenseScore" =>
        LET rs == call.results
            n == Len(rs)
            total == SumOver({i \in 1..n : rs[i].Success},
                             [i \in 1..n |-> rs[i].Improvement])
        IN  IF n = 0 THEN ret = 0
            ELSE /\ n * ret >= total
                 /\ n * (ret - 1) < total
                 /\ (n = 1 /\ rs[1].Success /\ rs[1].Improvement = 400) => ret = 400
                 /\ (n = 2 /\ rs[1].Success /\ rs[1].Improvement = 400
                        /\ ~rs[2].Success) => ret = 200

\* C10 witness: one success of 0.4 and one failure have been scored 0.2.
C10_Witness ==
    /\ call.op = "CalculateDefenseScore"
    /\ Len(call.results) = 2
    /\ call.results[1].Success
    /\ call.results[1].Improvement = 400
    /\ ~call.results[2].Success
    /\ ret = 200

\* C11: the only write to the caller's data is the metadata annotation of
\* ApplyDefense with the detection strategy: a call that changes the caller's
\* slice is that call, and it changes neither the length or order of the
\* slice nor any sample's id, features or label; every other call (Detect,
\* Defend, ApplyDefense with any other or an unknown name) leaves the slice
\* as it was; no call changes the strategy catalog or the thresholds.
C11_OnlyDetectionWrites ==
    [][/\ strategies' = strategies
       /\ thresholds' = thresholds
       /\ (samples' # samples) =>
            /\ call'.op = "ApplyDefense"
            /\ Named(call'.strategy).Type = "detection"
            /\ Len(samples') = Len(samples)
            /\ \A i \in 1..Len(samples) :
                [samples'[i] EXCEPT !.Metadata = samples[i].Metadata] = samples[i]]_vars

\* C11 witness: ApplyDefense with the preprocessing strategy has dropped a
\* sample from what it returns and left the caller's slice, which carries an
\* annotation of an earlier detection call, as it was.
C11_Witness ==
    /\ call.op = "ApplyDefense"
    /\ call.strategy = "Data Cleaning"
    /\ Len(ret) < Len(call.samples)
    /\ samples = call.samples
    /\ \E i \in 1..Len(samples) :
        /\ ~samples[i].Metadata.nil
        /\ "suspicious" \in DOMAIN samples[i].Metadata.m

\* the checks of analyzeSample in their order: type, description, evidence
CheckOrder ==
    << [type |-> TypeBackdoor,
        description |-> "Potential backdoor trigger detected",
        evidence |-> "Unusual feature pattern"],
       [type |-> TypeLabelFlip,
        description |-> "Suspicious label assignment detected",
        evidence |-> "Label-feature inconsistency"],
       [type |-> TypeGradientPoison,
        description |-> "Gradient manipulation detected",
        evidence |-> "Abnormal gradient pattern"],
       [type |-> TypeFeaturePoison,
        description |-> "Feature manipulation detected",
        evidence |-> "Anomalous feature values"] >>

\* the four scorer outputs on a sample, in that order
ScorerOutputs(s) ==
    << checkBackdoor(s), checkLabelFlip(s), checkGradientPoison(s),
       checkFeaturePoison(s) >>

\* C12: each of the four checks fires exactly when its own scorer output is
\* strictly over its threshold; a sample on which none fires gets the
\* unpoisoned zero verdict; on a sample on which one fires the verdict is
\* poisoned, its Score is the maximum of the four scorer outputs, and its
\* Type, Description and Evidence (and Confidence) are those of the last
\* check, in the order backdoor, label_flip, gradient_poison, feature_poison,
\* that fired.
C12_LastFiredWins ==
    call.op = "Detect" =>
        \A i \in 1..Len(ret.Samples) :
            LET v == ret.Samples[i]
                score == ScorerOutputs(call.samples[i])
                fired == {k \in 1..4 : FGt(score[k], thresholds[CheckOrder[k].type])}
            IN  IF fired = {}
                THEN v = [ID |-> call.samples[i].ID, IsPoisoned |-> FALSE,
                          Score |-> 0, Type |-> "", Description |-> "",
                          Evidence |-> "", Confidence |-> 0]
                ELSE LET last == CHOOSE k \in fired : \A j \in fired : j <= k
                     IN  /\ v.IsPoisoned
                         /\ \A k \in 1..4 : ~IsNaN(score[k]) /\ score[k] <= v.Score
                         /\ \E k \in 1..4 : score[k] = v.Score
                         /\ v.Type = CheckOrder[last].type
                         /\ v.Description = CheckOrder[last].description
                         /\ v.Evidence = CheckOrder[last].evidence
                         /\ v.Confidence = score[last]

\* C12 witness: the backdoor check fired with the higher score and the
\* feature check fired after it: the verdict carries the feature check's
\* type, description and evidence and the backdoor scorer's score.
C12_Witness ==
    /\ call.op = "Detect"
    /\ Len(ret.Samples) = 1
    /\ ret.Samples[1].Type = TypeFeaturePoison
    /\ ret.Samples[1].Description = "Feature manipulation detected"
    /\ ret.Samples[1].Evidence = "Anomalous feature values"
    /\ ret.Samples[1].Score = checkBackdoor(call.samples[1])
    /\ checkBackdoor(call.samples[1]) > checkFeaturePoison(call.samples[1])
    /\ FGt(checkFeaturePoison(call.samples[1]), thresholds[TypeFeaturePoison])

\* C13: on every sample the label scorer returns 0 and fewer than a quarter
\* of the features lie more than two standard deviations from the mean, so
\* the gradient scorer returns no number over 0.5 (it returns NaN when there
\* is no feature); neither is over its threshold, and every poisoned verdict
\* of Detect has the type backdoor or feature_poison.
C13_OnlyBackdoorOrFeature ==
    /\ call.op = "scorers" =>
        LET f == call.sample.Features
            mean == calculateMean(f)
            stdDev == calculateStdDev(f, mean)
            far == {i \in 1..Len(f) :
                        stdDev.ss > 0 /\ ZExceeds(f[i], mean, stdDev, 2, 1)}
        IN  /\ ret.label = 0
            /\ Len(f) > 0 => 4 * Cardinality(far) < Len(f)
            /\ IsNaN(ret.gradient) \/ ret.gradient <= Scale \div 2
            /\ ~FGt(ret.label, thresholds[TypeLabelFlip])
            /\ ~FGt(ret.gradient, thresholds[TypeGradientPoison])
    /\ call.op = "Detect" =>
        \A i \in 1..Len(ret.Samples) :
            ret.Samples[i].IsPoisoned =>
                ret.Samples[i].Type \in {TypeBackdoor, TypeFeaturePoison}

\* C13 witness: the scorers on a sample with far features on both sides of
\* the mean, where the gradient scorer is over 0.4.
C13_Witness ==
    /\ call.op = "scorers"
    /\ ret.gradient > 2 * (Scale \div 5)
    /\ ret.gradient <= Scale \div 2
    /\ ret.label = 0

====
